---- MODULE Spec2Model ----
(***************************************************************************)
(* Structural model of torchmps.py: the MPS model object, its chain of     *)
(* cores (LinearRegion / MergedLinearRegion) and the merge / unmerge       *)
(* cycle of the adaptive mode.  Tensors are represented by their kind and  *)
(* shape; the bond dimension an SVD split retains is a nondeterministic    *)
(* value in 1..max_D.                                                      *)
(***************************************************************************)
EXTENDS Integers, Sequences, FiniteSets, TLC

\* ------------------------------------------------------------------ bounds
MaxInputDim == 4
MaxCalls == 4
MaxRegion == 2
MaxScanLen == 3
MaxNorms == 5
MaxItems == 4

\* feature_dim=2 is the default of MPS.__init__
FeatureDim == 2
BondDims == {2}
OutputDims == {2}
Thresholds == {1, 10}
BatchSizes == {1, 4}

VARIABLES
    pc,             \* "new" | "ready" | "failed": life cycle of the MPS object
    args,           \* the arguments MPS.__init__ is called with
    module_list,    \* linear_region.module_list, the active chain
    module_list_0,  \* MergedLinearRegion.module_list_0 (phase-0 tiling)
    module_list_1,  \* MergedLinearRegion.module_list_1 (phase-1 tiling)
    offset,         \* MergedLinearRegion.offset, the phase flag
    input_counter,  \* MergedLinearRegion.input_counter
    bond_list,      \* MPS.bond_list
    sv_list,        \* MPS.sv_list (a spectrum is represented by its rank)
    call,           \* what the last operation did and returned
    batch_log,      \* batch sizes of the forward calls made so far
    ncycles,        \* structural cycles started so far
    comb,           \* a call of combine: its arguments and its result
    unm,            \* a call of a core's unmerge: the core and what it returns
    scan,           \* a sliding-window scan: its input list and its result
    resc,           \* the rescale step of unmerge: the norms and what it does
    ctor            \* a call of LinearRegion.__init__: its argument and outcome

\* The variables of the calls made on parts of the chain by themselves
part_vars == <<comb, unm, scan, resc, ctor>>

\* The variables of the MPS object and its linear region
mps_vars == <<pc, args, module_list, module_list_0, module_list_1, offset,
              input_counter, bond_list, sv_list, call, batch_log, ncycles>>

vars == <<pc, args, module_list, module_list_0, module_list_1, offset,
          input_counter, bond_list, sv_list, call, batch_log, ncycles, comb,
          unm, scan, resc, ctor>>

\* ------------------------------------------------------------------- cores
None == [kind |-> "None", n |-> 0, left_output |-> FALSE]

InputRegion(n) == [kind |-> "InputRegion", n |-> n, left_output |-> FALSE]

InputSite == [kind |-> "InputSite", n |-> 1, left_output |-> FALSE]

OutputSite == [kind |-> "OutputSite", n |-> 1, left_output |-> FALSE]

MergedInput(k) == [kind |-> "MergedInput", n |-> k, left_output |-> FALSE]

MergedOutput(lo) == [kind |-> "MergedOutput", n |-> 1, left_output |-> lo]

\* __len__ of each core class: the number of input sites it consumes
SiteLen(c) ==
    CASE c.kind = "InputRegion"  -> c.n
      [] c.kind = "MergedInput"  -> 2 * c.n
      [] c.kind = "InputSite"    -> 1
      [] c.kind = "OutputSite"   -> 0
      [] c.kind = "MergedOutput" -> 1

\* core_len counting the stored cores of a MergedInput (tensor.size(0))
CoreLenStored(c) ==
    CASE c.kind = "InputRegion"  -> SiteLen(c)
      [] c.kind = "MergedInput"  -> c.n
      [] c.kind = "InputSite"    -> 1
      [] c.kind = "OutputSite"   -> 1
      [] c.kind = "MergedOutput" -> 2

\* core_len of each core class
CoreLen(c) ==
    CASE c.kind = "InputRegion"  -> SiteLen(c)
      [] c.kind = "MergedInput"  -> SiteLen(c)
      [] c.kind = "InputSite"    -> 1
      [] c.kind = "OutputSite"   -> 1
      [] c.kind = "MergedOutput" -> 2

\* tensor.shape of a core, for bond_dim D, feature_dim F, output_dim O
Shape(c, D, F, O) ==
    CASE c.kind = "InputRegion"  -> <<c.n, D, D, F>>
      [] c.kind = "MergedInput"  -> <<c.n, D, D, F, F>>
      [] c.kind = "InputSite"    -> <<D, D, F>>
      [] c.kind = "OutputSite"   -> <<O, D, D>>
      [] c.kind = "MergedOutput" -> <<O, D, D, F>>

\* LinearRegion.__len__ / MergedLinearRegion.__len__
RECURSIVE ChainLen(_)
ChainLen(l) == IF l = <<>> THEN 0 ELSE SiteLen(Head(l)) + ChainLen(Tail(l))

\* LinearRegion.core_len / MergedLinearRegion.core_len
RECURSIVE ChainCoreLen(_)
ChainCoreLen(l) == IF l = <<>> THEN 0 ELSE CoreLen(Head(l)) + ChainCoreLen(Tail(l))

\* the list comprehension that drops None entries
RECURSIVE DropNone(_)
DropNone(l) ==
    IF l = <<>> THEN <<>>
    ELSE IF Head(l) = None THEN DropNone(Tail(l))
    ELSE <<Head(l)>> \o DropNone(Tail(l))

\* InputRegion.merge on a region of n cores, offset 0, n even (the main case;
\* an empty region gives [None])
EvenMerge(n) == IF n = 0 THEN <<None>> ELSE <<MergedInput(n \div 2)>>

\* InputRegion.merge pairing from the first core whatever the offset
InputRegionMergeNoOffset(n, off) ==
    DropNone(IF n % 2 = 1 THEN <<EvenMerge(n - 1)[1], InputSite>> ELSE EvenMerge(n))

\* InputRegion.merge(offset) on a region of n >= 1 cores
InputRegionMerge(n, off) ==
    LET parity == n % 2
        out_list ==
            CASE off = 1 /\ parity = 1 -> <<InputSite, EvenMerge(n - 1)[1]>>
              [] off = 1 /\ parity = 0 -> <<InputSite, EvenMerge(n - 2)[1], InputSite>>
              [] off = 0 /\ parity = 1 -> <<EvenMerge(n - 1)[1], InputSite>>
              [] OTHER                 -> EvenMerge(n)
    IN DropNone(out_list)

\* combine with the first rule applied in either mode
combineAnyMode(left_core, right_core, merging) ==
    IF (left_core.kind = "OutputSite" /\ right_core.kind = "InputSite")
       \/ (left_core.kind = "InputSite" /\ right_core.kind = "OutputSite")
    THEN MergedOutput(~(left_core.kind = "InputSite"))
    ELSE IF ~merging /\ ((left_core.kind = "InputRegion" /\ right_core.kind = "InputSite")
                         \/ (left_core.kind = "InputSite" /\ right_core.kind = "InputRegion"))
    THEN InputRegion(SiteLen(left_core) + SiteLen(right_core))
    ELSE None

\* MergedLinearRegion.combine
combine(left_core, right_core, merging) ==
    IF merging /\ ((left_core.kind = "OutputSite" /\ right_core.kind = "InputSite")
                   \/ (left_core.kind = "InputSite" /\ right_core.kind = "OutputSite"))
    THEN LET left_site == left_core.kind = "InputSite"
         IN MergedOutput(~left_site)
    ELSE IF ~merging /\ ((left_core.kind = "InputRegion" /\ right_core.kind = "InputSite")
                         \/ (left_core.kind = "InputSite" /\ right_core.kind = "InputRegion"))
    THEN InputRegion(SiteLen(left_core) + SiteLen(right_core))
    ELSE None

\* One pass of the sliding window of MergedLinearRegion.merge (the inner while
\* loop): mod_num and site_num are the loop's counters, combined_list its result
RECURSIVE MergePass(_, _, _, _, _)
MergePass(merged_list, off, mod_num, site_num, combined_list) ==
    IF mod_num < Len(merged_list) - 1
    THEN LET left_core  == merged_list[mod_num + 1]
             right_core == merged_list[mod_num + 2]
             new_core   == combine(left_core, right_core, TRUE)
             keep       == new_core = None \/ off # site_num % 2
             list1      == IF keep THEN Append(combined_list, left_core)
                                   ELSE Append(combined_list, new_core)
             mod1       == IF keep THEN mod_num + 1 ELSE mod_num + 2
             site1      == IF keep THEN site_num + CoreLen(left_core)
                                   ELSE site_num + CoreLen(new_core)
             last       == mod1 = Len(merged_list) - 1
             list2      == IF last THEN Append(list1, merged_list[mod1 + 1]) ELSE list1
             mod2       == IF last THEN mod1 + 1 ELSE mod1
         IN MergePass(merged_list, off, mod2, site1, list2)
    ELSE combined_list

\* The outer while loop of merge: passes until one leaves the length unchanged
RECURSIVE MergeScan(_, _)
MergeScan(merged_list, off) ==
    LET combined_list == MergePass(merged_list, off, 0, 0, <<>>)
    IN IF Len(combined_list) = Len(merged_list) THEN merged_list
       ELSE MergeScan(combined_list, off)

\* The first loop of merge: each core that has a merge method is merged
\* internally, site_num carrying the parity of its first core
RECURSIVE MergeInternal(_, _)
MergeInternal(unmerged_list, site_num) ==
    IF unmerged_list = <<>> THEN <<>>
    ELSE LET core == Head(unmerged_list)
             part == IF core.kind = "InputRegion"
                     THEN InputRegionMerge(core.n, site_num % 2)
                     ELSE <<core>>
         IN part \o MergeInternal(Tail(unmerged_list), site_num + CoreLen(core))

\* The assertions at the top of merge's first loop
MergeInputOk(unmerged_list) ==
    \A i \in 1..Len(unmerged_list) :
        unmerged_list[i].kind \notin {"MergedInput", "MergedOutput"}

\* MergedLinearRegion.merge up to the list it is about to store
MergedList(unmerged_list, off) == MergeScan(MergeInternal(unmerged_list, off), off)

\* The in-place update at the end of merge: its two assertions
InPlaceOk(old_list, merged_list, D, F, O) ==
    /\ Len(old_list) = Len(merged_list)
    /\ \A i \in 1..Len(old_list) :
          Shape(old_list[i], D, F, O) = Shape(merged_list[i], D, F, O)

\* One pass of the sliding window of MergedLinearRegion.unmerge
RECURSIVE UnmergePass(_, _, _)
UnmergePass(unmerged_list, mod_num, combined_list) ==
    IF mod_num < Len(unmerged_list) - 1
    THEN LET left_core  == unmerged_list[mod_num + 1]
             right_core == unmerged_list[mod_num + 2]
             new_core   == combine(left_core, right_core, FALSE)
             keep       == new_core = None
             list1      == IF keep THEN Append(combined_list, left_core)
                                   ELSE Append(combined_list, new_core)
             mod1       == IF keep THEN mod_num + 1 ELSE mod_num + 2
             last       == mod1 = Len(unmerged_list) - 1
             list2      == IF last THEN Append(list1, unmerged_list[mod1 + 1]) ELSE list1
             mod2       == IF last THEN mod1 + 1 ELSE mod1
         IN UnmergePass(unmerged_list, mod2, list2)
    ELSE combined_list

\* unmerge without its cleanup passes
UnmergeScanSkipped(unmerged_list) == unmerged_list

\* The outer while loop of unmerge
RECURSIVE UnmergeScan(_)
UnmergeScan(unmerged_list) ==
    LET combined_list == UnmergePass(unmerged_list, 0, <<>>)
    IN IF Len(combined_list) = Len(unmerged_list) THEN unmerged_list
       ELSE UnmergeScan(combined_list)

\* MergedOutput.unmerge returning its pair in the same order for both flags
CoreUnmergeOutputFirst(core) ==
    CASE core.kind = "MergedInput"  -> <<InputRegion(2 * core.n)>>
      [] core.kind = "MergedOutput" -> <<OutputSite, InputSite>>
      [] OTHER -> <<core>>

\* MergedInput.unmerge keeping one core per stored core
CoreUnmergeUnsplit(core) ==
    CASE core.kind = "MergedInput"  -> <<InputRegion(core.n)>>
      [] core.kind = "MergedOutput" ->
            IF core.left_output THEN <<OutputSite, InputSite>>
                                ELSE <<InputSite, OutputSite>>
      [] OTHER -> <<core>>

\* MergedInput.unmerge and MergedOutput.unmerge: the cores they return
CoreUnmerge(core) ==
    CASE core.kind = "MergedInput"  -> <<InputRegion(2 * core.n)>>
      [] core.kind = "MergedOutput" ->
            IF core.left_output THEN <<OutputSite, InputSite>>
                                ELSE <<InputSite, OutputSite>>
      [] OTHER -> <<core>>

\* The first loop of MergedLinearRegion.unmerge: the unmerged cores
RECURSIVE UnmergeCores(_)
UnmergeCores(merged_list) ==
    IF merged_list = <<>> THEN <<>>
    ELSE CoreUnmerge(Head(merged_list)) \o UnmergeCores(Tail(merged_list))

\* new_bonds[1:] of MergedInput.unmerge for k stored cores, the first of them
\* split at junction at: [bond_dim, -1] per stored core.  svd[i] is the bond
\* dimension svd_flex retains at junction i
RECURSIVE SplitBonds(_, _, _)
SplitBonds(k, svd, at) ==
    IF k = 0 THEN <<>> ELSE <<svd[at], -1>> \o SplitBonds(k - 1, svd, at + 2)

\* What one core adds to bond_list in the first loop of unmerge
CoreBonds(core, svd, at) ==
    CASE core.kind = "MergedInput"  -> SplitBonds(core.n, svd, at)
      [] core.kind = "MergedOutput" -> <<svd[at], -1>>
      [] OTHER -> <<-1>>

RECURSIVE BondsFrom(_, _, _)
BondsFrom(merged_list, svd, at) ==
    IF merged_list = <<>> THEN <<>>
    ELSE LET part == CoreBonds(Head(merged_list), svd, at)
         IN part \o BondsFrom(Tail(merged_list), svd, at + Len(part))

\* bond_list as unmerge returns it, starting from the list [-1]
UnmergeBonds(merged_list, svd) == <<-1>> \o BondsFrom(merged_list, svd, 2)

\* sv_list as unmerge returns it, built alongside bond_list: a spectrum is
\* represented by its rank, the number of singular values above the cutoff
UnmergeSvs(merged_list, svd) == <<-1>> \o BondsFrom(merged_list, svd, 2)

\* The junctions at which unmerge records a split
SplitJunctions(merged_list) ==
    LET marks == UnmergeBonds(merged_list,
                              [i \in 1..(2 + ChainLen(merged_list)) |-> 1])
    IN {i \in 1..Len(marks) : marks[i] # -1}

\* module_list as unmerge leaves it
UnmergedList(merged_list) == UnmergeScan(UnmergeCores(merged_list))

\* ---------------------------------------------------- LinearRegion.forward
\* The loop that cuts input_data into one slice per module: start and width
\* along the site axis, and the rank of the slice (input_data[:, ind] when
\* mod_len is 1, input_data[:, ind:ind+mod_len] otherwise)
\* The slicing loop advancing ind by one per module
RECURSIVE SlicesStepOne(_, _)
SlicesStepOne(chain, ind) ==
    IF chain = <<>> THEN <<>>
    ELSE LET mod_len == SiteLen(Head(chain))
         IN <<[start |-> ind, width |-> mod_len,
               rank |-> IF mod_len = 1 THEN 2 ELSE 3]>>
            \o SlicesStepOne(Tail(chain), ind + 1)

RECURSIVE Slices(_, _)
Slices(chain, ind) ==
    IF chain = <<>> THEN <<>>
    ELSE LET mod_len == SiteLen(Head(chain))
         IN <<[start |-> ind, width |-> mod_len,
               rank |-> IF mod_len = 1 THEN 2 ELSE 3]>>
            \o Slices(Tail(chain), ind + mod_len)

\* The shape assertions at the top of each core's forward
CoreAccepts(core, slice) ==
    CASE core.kind = "InputRegion"  -> slice.rank = 3 /\ slice.width = SiteLen(core)
      [] core.kind = "MergedInput"  -> slice.rank = 3 /\ slice.width = SiteLen(core)
                                       /\ slice.width % 2 = 0
      [] core.kind = "InputSite"    -> slice.rank = 2
      [] core.kind = "MergedOutput" -> slice.rank = 2
      [] core.kind = "OutputSite"   -> TRUE

\* Index of the first module whose forward raises, 0 when none does
FirstReject(chain) ==
    LET slices == Slices(chain, 0)
        bad    == {i \in 1..Len(chain) : ~CoreAccepts(chain[i], slices[i])}
    IN IF bad = {} THEN 0 ELSE CHOOSE i \in bad : \A j \in bad : i <= j

\* The slices handed to modules before the call returns or raises
SlicesFed(chain) ==
    IF FirstReject(chain) = 0 THEN Slices(chain, 0)
    ELSE SubSeq(Slices(chain, 0), 1, FirstReject(chain))

\* ------------------------------------------------------------ MPS.__init__
\* label_site as resolved at the top of __init__
LabelSite(a) == IF a.label_given THEN a.label_site ELSE a.input_dim \div 2

LabelSiteOk(a) == LabelSite(a) >= 0 /\ LabelSite(a) <= a.input_dim

\* module_list as __init__ builds it: two InputRegions around an OutputSite
UnmergedChain(a) ==
    (IF LabelSite(a) > 0 THEN <<InputRegion(LabelSite(a))>> ELSE <<>>)
    \o <<OutputSite>>
    \o (IF LabelSite(a) < a.input_dim
        THEN <<InputRegion(a.input_dim - LabelSite(a))>> ELSE <<>>)

\* The path check of __init__: an empty path is falsy and skips the assertions
PathOk(a) == (a.path_given /\ a.path_len > 0) => a.path_len = a.input_dim

\* bond_list and sv_list as __init__ sets them
InitBondList(a) ==
    [i \in 1..(a.input_dim + 2) |->
        IF ~a.periodic_bc /\ i \in {1, a.input_dim + 2} THEN 1 ELSE a.bond_dim]

InitSvList(a) == [i \in 1..(a.input_dim + 2) |-> -1]

NoCall ==
    [op |-> "none", outcome |-> "none", error |-> "", fired |-> FALSE,
     entry |-> 0, mid |-> 0, batch |-> 0, offset_in |-> 0,
     new_bonds |-> <<>>, new_svs |-> <<>>, slices |-> <<>>, unmerged |-> <<>>,
     split_bonds |-> <<>>]

\* MPS.__init__ with arguments a: the fields it leaves and whether it raises
ConstructResult(a) ==
    LET chain  == UnmergedChain(a)
        list_0 == MergedList(chain, 0)
        list_1 == MergedList(chain, 1)
        region == IF a.adaptive_mode THEN list_0 ELSE chain
        err    == IF ~LabelSiteOk(a) THEN "label_site"
                  ELSE IF ChainLen(region) # a.input_dim THEN "len"
                  ELSE IF ~PathOk(a) THEN "path"
                  ELSE ""
        built  == LabelSiteOk(a)
    IN [pc            |-> IF err = "" THEN "ready" ELSE "failed",
        module_list   |-> IF built THEN region ELSE <<>>,
        module_list_0 |-> IF built /\ a.adaptive_mode THEN list_0 ELSE <<>>,
        module_list_1 |-> IF built /\ a.adaptive_mode THEN list_1 ELSE <<>>,
        bond_list     |-> IF err = "" THEN InitBondList(a) ELSE <<>>,
        sv_list       |-> IF err = "" THEN InitSvList(a) ELSE <<>>,
        call          |-> [NoCall EXCEPT !.op = "init",
                                         !.outcome = IF err = "" THEN "ok" ELSE "error",
                                         !.error = err]]

Construct ==
    /\ pc = "new"
    /\ \E r \in {ConstructResult(args)} :
          /\ pc' = r.pc
          /\ module_list' = r.module_list
          /\ module_list_0' = r.module_list_0
          /\ module_list_1' = r.module_list_1
          /\ bond_list' = r.bond_list
          /\ sv_list' = r.sv_list
          /\ call' = r.call
    /\ UNCHANGED <<args, offset, input_counter, batch_log, ncycles, part_vars>>

\* ------------------------------------------------------------- MPS.forward
\* The bond dimensions svd_flex may retain at the junctions of merged_list
SvdChoices(merged_list, fired, D) ==
    IF fired THEN [SplitJunctions(merged_list) -> 1..D]
    ELSE {[i \in SplitJunctions(merged_list) |-> 1]}

\* The threshold test of MergedLinearRegion.forward
ThresholdReached(counter, thr) == counter >= thr

\* The counter reset by a cycle instead of carrying the remainder
CounterReset(counter, thr) == 0

\* The counter once a cycle has run
CounterAfterCycle(counter, thr) == counter - thr

\* The counter counting calls instead of samples
CounterPlusOne(counter, b) == counter + 1

\* The counter once the call's batch is counted
CounterAfterCall(counter, b) == counter + b

\* The update loop without its test for the sentinel
UpdatedListAll(old, new_bonds, new_vals) ==
    [i \in 1..Len(old) |-> new_vals[i]]

\* The update loop of MPS.forward over the returned lists
UpdatedList(old, new_bonds, new_vals) ==
    [i \in 1..Len(old) |-> IF new_bonds[i] # -1 THEN new_vals[i] ELSE old[i]]

\* The tiling of the current phase, which unmerge reads (module_list_<offset>)
ActiveBefore == IF offset = 0 THEN module_list_0 ELSE module_list_1

\* One call of MPS.forward on a batch of b samples: the values the call leaves
\* in the object's fields, and what it returns or raises
ForwardResult(b, svd) ==
    LET thr        == args.merge_threshold
        fired      == args.adaptive_mode /\ ThresholdReached(input_counter, thr)
        merged     == IF offset = 0 THEN module_list_0 ELSE module_list_1
        unmerged   == UnmergedList(merged)
        new_bonds  == UnmergeBonds(merged, svd)
        new_svs    == UnmergeSvs(merged, svd)
        offset1    == (offset + 1) % 2
        target     == IF offset1 = 0 THEN module_list_0 ELSE module_list_1
        remerged   == MergedList(unmerged, offset1)
        merge_ok   == /\ MergeInputOk(unmerged)
                      /\ InPlaceOk(target, remerged, args.bond_dim, FeatureDim,
                                   args.output_dim)
        aborted    == fired /\ ~merge_ok
        active     == IF ~fired THEN module_list
                      ELSE IF merge_ok THEN target ELSE unmerged
        mid        == IF fired /\ merge_ok THEN CounterAfterCycle(input_counter, thr)
                      ELSE input_counter
        reject     == FirstReject(active)
        triple     == fired /\ Len(new_bonds) > 0
        lens_ok    == Len(new_bonds) = Len(bond_list) /\ Len(new_bonds) = Len(new_svs)
        err        == IF aborted THEN "merge"
                      ELSE IF reject # 0 THEN "rank"
                      ELSE IF triple /\ ~lens_ok THEN "lists"
                      ELSE ""
    IN [module_list   |-> active,
        offset        |-> IF fired THEN offset1 ELSE offset,
        input_counter |-> IF aborted \/ ~args.adaptive_mode THEN input_counter
                          ELSE CounterAfterCall(mid, b),
        bond_list     |-> IF err = "" /\ triple
                          THEN UpdatedList(bond_list, new_bonds, new_bonds)
                          ELSE bond_list,
        sv_list       |-> IF err = "" /\ triple
                          THEN UpdatedList(sv_list, new_bonds, new_svs)
                          ELSE sv_list,
        ncycles       |-> IF fired THEN ncycles + 1 ELSE ncycles,
        call          |-> [op |-> "forward",
                           outcome |-> IF err # "" THEN "error"
                                       ELSE IF triple THEN "triple" ELSE "plain",
                           error |-> err, fired |-> fired,
                           entry |-> input_counter, mid |-> mid, batch |-> b,
                           offset_in |-> offset,
                           new_bonds |-> IF err = "" /\ triple THEN new_bonds ELSE <<>>,
                           new_svs |-> IF err = "" /\ triple THEN new_svs ELSE <<>>,
                           slices |-> IF aborted THEN <<>> ELSE SlicesFed(active),
                           unmerged |-> IF fired THEN unmerged ELSE <<>>,
                           split_bonds |-> IF fired THEN new_bonds ELSE <<>>]]

Forward(b) ==
    /\ pc = "ready"
    /\ Len(batch_log) < MaxCalls
    /\ \E svd \in SvdChoices(IF offset = 0 THEN module_list_0 ELSE module_list_1,
                             args.adaptive_mode
                                /\ ThresholdReached(input_counter,
                                                    args.merge_threshold),
                             args.bond_dim) :
          \E r \in {ForwardResult(b, svd)} :
             /\ module_list' = r.module_list
             /\ offset' = r.offset
             /\ input_counter' = r.input_counter
             /\ bond_list' = r.bond_list
             /\ sv_list' = r.sv_list
             /\ ncycles' = r.ncycles
             /\ call' = r.call
    /\ batch_log' = Append(batch_log, b)
    /\ UNCHANGED <<pc, args, module_list_0, module_list_1, part_vars>>

\* ------------------------------------------------------------ specification
ArgSets(dims, labels, paths) ==
    {a \in [input_dim : dims, label_given : BOOLEAN, label_site : labels,
            adaptive_mode : BOOLEAN, periodic_bc : BOOLEAN,
            merge_threshold : Thresholds, bond_dim : BondDims,
            output_dim : OutputDims, path_given : BOOLEAN, path_len : paths] :
        /\ a.label_site <= a.input_dim + 1
        /\ ~a.label_given => a.label_site = 0
        /\ ~a.path_given => a.path_len = 0
        /\ a.path_len <= a.input_dim + 1}

NoCombine ==
    [left |-> None, right |-> None, merging |-> FALSE, result |-> None,
     done |-> FALSE]

NoUnmerge ==
    [core |-> None, from |-> "none", cores |-> <<>>, bonds |-> <<>>,
     svs |-> <<>>, done |-> FALSE]

NoScan ==
    [list |-> <<>>, merging |-> FALSE, offset |-> 0, result |-> <<>>,
     done |-> FALSE]

NoRescale ==
    [norms |-> <<>>, log_scale |-> "fin", scales |-> <<>>, after |-> <<>>,
     raised |-> FALSE, done |-> FALSE]

NoCtor ==
    [is_list |-> FALSE, items |-> <<>>, raised |-> FALSE, module_list |-> <<>>,
     done |-> FALSE]

InitState(a) ==
    /\ comb = NoCombine
    /\ unm = NoUnmerge
    /\ scan = NoScan
    /\ resc = NoRescale
    /\ ctor = NoCtor
    /\ pc = "new"
    /\ args = a
    /\ module_list = <<>>
    /\ module_list_0 = <<>>
    /\ module_list_1 = <<>>
    /\ offset = 0
    /\ input_counter = 0
    /\ bond_list = <<>>
    /\ sv_list = <<>>
    /\ call = NoCall
    /\ batch_log = <<>>
    /\ ncycles = 0

\* A model about to be constructed with a label site given explicitly (in or
\* just out of range) and no custom path
Init ==
    \E a \in ArgSets(1..MaxInputDim, -1..(MaxInputDim + 1), {0}) :
        /\ a.label_given /\ ~a.path_given
        /\ InitState(a)

Next ==
    \/ Construct
    \/ \E b \in BatchSizes : Forward(b)

Spec == Init /\ [][Next]_vars

\* Construction alone, over every form of the label_site and path arguments
InitConstruct ==
    \E a \in ArgSets(1..MaxInputDim, -1..(MaxInputDim + 1), 0..(MaxInputDim + 1)) :
        InitState(a)

NextConstruct == Construct

SpecConstruct == InitConstruct /\ [][NextConstruct]_vars

\* combine alone, over every pair of core kinds and both modes
CoreSet ==
    {InputSite, OutputSite, MergedOutput(TRUE), MergedOutput(FALSE)}
    \cup {InputRegion(n) : n \in 1..MaxRegion}
    \cup {MergedInput(k) : k \in 1..MaxRegion}

InitCombine ==
    /\ \E l \in CoreSet, r \in CoreSet, m \in BOOLEAN :
          comb = [left |-> l, right |-> r, merging |-> m, result |-> None,
                  done |-> FALSE]
    /\ unm = NoUnmerge
    /\ scan = NoScan
    /\ resc = NoRescale
    /\ ctor = NoCtor
    /\ pc = "new"
    /\ args \in ArgSets({1}, {0}, {0})
    /\ args.label_given /\ ~args.path_given /\ args.adaptive_mode
    /\ ~args.periodic_bc /\ args.merge_threshold = 1
    /\ module_list = <<>>
    /\ module_list_0 = <<>>
    /\ module_list_1 = <<>>
    /\ offset = 0
    /\ input_counter = 0
    /\ bond_list = <<>>
    /\ sv_list = <<>>
    /\ call = NoCall
    /\ batch_log = <<>>
    /\ ncycles = 0

CombineCall ==
    /\ ~comb.done
    /\ comb' = [comb EXCEPT !.result = combine(comb.left, comb.right, comb.merging),
                            !.done = TRUE]
    /\ UNCHANGED <<mps_vars, unm, scan, resc, ctor>>

\* unmerge of one core by itself: the list [-1] + new_bonds[1:] it returns,
\* svd giving the bond dimension svd_flex retains at each split
CoreUnmergeResult(core, svd) ==
    [cores |-> CoreUnmerge(core),
     bonds |-> <<-1>> \o CoreBonds(core, svd, 2),
     svs   |-> <<-1>> \o CoreBonds(core, svd, 2)]

\* MergedInput.unmerge / MergedOutput.unmerge called on one of the cores at
\* hand: an argument of combine, or the core combine returned
UnmergeCall ==
    /\ ~unm.done
    /\ \E src \in {"left", "right", "result"} :
          \E core \in {IF src = "left" THEN comb.left
                       ELSE IF src = "right" THEN comb.right ELSE comb.result} :
             /\ src = "result" => comb.done
             /\ core.kind \in {"MergedInput", "MergedOutput"}
             /\ \E svd \in [SplitJunctions(<<core>>) -> 1..args.bond_dim] :
                   \E r \in {CoreUnmergeResult(core, svd)} :
                      unm' = [core |-> core, from |-> src, cores |-> r.cores,
                              bonds |-> r.bonds, svs |-> r.svs, done |-> TRUE]
    /\ UNCHANGED <<mps_vars, comb, scan, resc, ctor>>

NextCombine == CombineCall \/ UnmergeCall

SpecCombine == InitCombine /\ [][NextCombine]_vars

\* ------------------------------------------- the rescale step of unmerge
\* Norms and their logarithms are followed by class: a norm is "zero" or "pos"
\* (after scaling also "inf" or "nan"), a logarithm "-inf", "fin", "+inf" or "nan"
NormClasses == {"zero", "pos"}

\* torch.log of a norm
LogOf(norm) ==
    CASE norm = "zero" -> "-inf"
      [] norm = "pos"  -> "fin"
      [] norm = "inf"  -> "+inf"
      [] OTHER         -> "nan"

\* sum of a list of logarithms (and its quotient by their number, which is
\* positive and leaves the class as it is)
SumOf(logs) ==
    LET has(c) == \E i \in 1..Len(logs) : logs[i] = c
    IN IF has("nan") \/ (has("-inf") /\ has("+inf")) THEN "nan"
       ELSE IF has("-inf") THEN "-inf"
       ELSE IF has("+inf") THEN "+inf"
       ELSE "fin"

\* a - b on logarithms
MinusOf(a, b) ==
    CASE a = "nan" \/ b = "nan" -> "nan"
      [] a = "fin"  -> (CASE b = "fin" -> "fin" [] b = "-inf" -> "+inf" [] OTHER -> "-inf")
      [] a = "-inf" -> (IF b = "-inf" THEN "nan" ELSE "-inf")
      [] OTHER      -> (IF b = "+inf" THEN "nan" ELSE "+inf")

\* torch.exp of a logarithm
ExpOf(x) ==
    CASE x = "fin"  -> "pos"
      [] x = "-inf" -> "zero"
      [] x = "+inf" -> "inf"
      [] OTHER      -> "nan"

\* core *= scale, seen on the norm of the core
ScaledNorm(norm, scale) ==
    CASE norm = "nan" \/ scale = "nan" -> "nan"
      [] (norm = "zero" /\ scale = "inf") \/ (norm = "inf" /\ scale = "zero") -> "nan"
      [] norm = "zero" \/ scale = "zero" -> "zero"
      [] norm = "inf" \/ scale = "inf" -> "inf"
      [] OTHER -> "pos"

\* The rescale step on the norms of the unmerged cores: log_scale, the scale
\* factors, and the norms the cores are left with.  No statement of the step
\* raises on a zero norm.
RescaleResult(norms) ==
    LET log_norms == [i \in 1..Len(norms) |-> LogOf(norms[i])]
        log_scale == SumOf(log_norms)
        scales    == [i \in 1..Len(norms) |-> ExpOf(MinusOf(log_scale, log_norms[i]))]
    IN [norms |-> norms, log_scale |-> log_scale, scales |-> scales,
        after |-> [i \in 1..Len(norms) |-> ScaledNorm(norms[i], scales[i])],
        raised |-> FALSE, done |-> TRUE]

NormLists == UNION {[1..n -> NormClasses] : n \in 1..MaxNorms}

\* The variables of the MPS object when no object is under study
MpsIdle ==
    /\ pc = "new"
    /\ args \in ArgSets({1}, {0}, {0})
    /\ args.label_given /\ ~args.path_given /\ args.adaptive_mode
    /\ ~args.periodic_bc /\ args.merge_threshold = 1
    /\ module_list = <<>>
    /\ module_list_0 = <<>>
    /\ module_list_1 = <<>>
    /\ offset = 0
    /\ input_counter = 0
    /\ bond_list = <<>>
    /\ sv_list = <<>>
    /\ call = NoCall
    /\ batch_log = <<>>
    /\ ncycles = 0

InitRescale ==
    /\ \E norms \in NormLists : resc = [NoRescale EXCEPT !.norms = norms]
    /\ comb = NoCombine /\ unm = NoUnmerge /\ scan = NoScan /\ ctor = NoCtor
    /\ MpsIdle

RescaleCall ==
    /\ ~resc.done
    /\ resc' = RescaleResult(resc.norms)
    /\ UNCHANGED <<mps_vars, comb, unm, scan, ctor>>

NextRescale == RescaleCall

SpecRescale == InitRescale /\ [][NextRescale]_vars

\* --------------------------------------------------- the scans by themselves
\* The cores the scan of merge can meet (the internal merges leave no
\* InputRegion, the assertions of the first loop no merged output core) and the
\* cores the scan of unmerge can meet (every merged core has been unmerged)
MergeScanCores == {InputSite, OutputSite} \cup {MergedInput(k) : k \in 1..MaxRegion}

UnmergeScanCores == {InputSite, OutputSite} \cup {InputRegion(n) : n \in 1..MaxRegion}

ListsOver(cores) == UNION {[1..n -> cores] : n \in 1..MaxScanLen}

\* The list the while loop of merge (merging) or of unmerge leaves
ScanResult(list, merging, off) ==
    IF merging THEN MergeScan(list, off) ELSE UnmergeScan(list)

InitScan ==
    /\ \E m \in BOOLEAN, off \in {0, 1} :
          \E l \in ListsOver(IF m THEN MergeScanCores ELSE UnmergeScanCores) :
             /\ ~m => off = 0
             /\ scan = [NoScan EXCEPT !.list = l, !.merging = m, !.offset = off]
    /\ comb = NoCombine /\ unm = NoUnmerge /\ resc = NoRescale /\ ctor = NoCtor
    /\ MpsIdle

ScanCall ==
    /\ ~scan.done
    /\ scan' = [scan EXCEPT !.result = ScanResult(scan.list, scan.merging, scan.offset),
                            !.done = TRUE]
    /\ UNCHANGED <<mps_vars, comb, unm, resc, ctor>>

NextScan == ScanCall

SpecScan == InitScan /\ [][NextScan]_vars

\* ------------------------------------------- MergedLinearRegion.forward alone
\* The shapes of input_data a caller of the linear region may pass: the right
\* one, one of the wrong rank, one with a site count that is not len(self)
InputShapes == {"ok", "rank", "sites"}

\* The shape assertions at the top of LinearRegion.forward
ShapeOk(shape) == shape = "ok"

\* One call of MergedLinearRegion.forward made directly on the linear region,
\* from r, what the same call does through MPS.forward: the cycle and the
\* counter are the same and come before the shape assertions of
\* LinearRegion.forward; MPS.bond_list and MPS.sv_list are not touched
RegionForwardResult(r, svd, shape) ==
    LET aborted == r.call.error = "merge"
        err     == IF aborted THEN "merge"
                   ELSE IF ~ShapeOk(shape) THEN "shape"
                   ELSE IF r.call.error = "rank" THEN "rank"
                   ELSE ""
        triple  == r.call.fired /\ err = ""
    IN [module_list   |-> r.module_list,
        offset        |-> r.offset,
        input_counter |-> r.input_counter,
        ncycles       |-> r.ncycles,
        call          |-> [r.call EXCEPT
                             !.op = "region_forward",
                             !.outcome = IF err # "" THEN "error"
                                         ELSE IF triple THEN "triple" ELSE "plain",
                             !.error = err,
                             !.new_bonds = IF triple THEN UnmergeBonds(ActiveBefore, svd)
                                           ELSE <<>>,
                             !.new_svs = IF triple THEN UnmergeSvs(ActiveBefore, svd)
                                         ELSE <<>>,
                             !.slices = IF err \in {"merge", "shape"} THEN <<>>
                                        ELSE r.call.slices]]

RegionForward(b, shape) ==
    /\ pc = "ready"
    /\ args.adaptive_mode
    /\ Len(batch_log) < MaxCalls
    /\ \E svd \in SvdChoices(ActiveBefore,
                             ThresholdReached(input_counter, args.merge_threshold),
                             args.bond_dim) :
          \E through \in {ForwardResult(b, svd)} :
          \E r \in {RegionForwardResult(through, svd, shape)} :
             /\ module_list' = r.module_list
             /\ offset' = r.offset
             /\ input_counter' = r.input_counter
             /\ ncycles' = r.ncycles
             /\ call' = r.call
    /\ batch_log' = Append(batch_log, b)
    /\ UNCHANGED <<pc, args, module_list_0, module_list_1, bond_list, sv_list,
                   part_vars>>

\* An adaptive model whose linear region is called directly
InitRegion ==
    \E a \in ArgSets(1..MaxInputDim, 0..MaxInputDim, {0}) :
        /\ a.label_given /\ ~a.path_given /\ a.adaptive_mode
        /\ InitState(a)

NextRegion ==
    \/ Construct
    \/ \E b \in BatchSizes, shape \in InputShapes : RegionForward(b, shape)

SpecRegion == InitRegion /\ [][NextRegion]_vars

\* ------------------------------------------------- LinearRegion.__init__
\* The argument module_list: whether it is a list, and what its entries are
ItemKinds == {"module", "other"}

ItemLists == UNION {[1..n -> ItemKinds] : n \in 0..MaxItems}

\* `module_list is []`: identity with a list made on the spot, never true
IsTheEmptyList(items) == FALSE

\* The first check of __init__: not a list, or the empty list
FirstCheckRaises(is_list, items) == ~is_list \/ IsTheEmptyList(items)

\* LinearRegion.__init__: raises ValueError or stores the list
LinearRegionResult(is_list, items) ==
    LET raised == \/ FirstCheckRaises(is_list, items)
                  \/ \E i \in 1..Len(items) : items[i] # "module"
    IN [is_list |-> is_list, items |-> items, raised |-> raised,
        module_list |-> IF raised THEN <<>> ELSE items, done |-> TRUE]

InitLinearRegion ==
    /\ \E is_list \in BOOLEAN, items \in ItemLists :
          ctor = [NoCtor EXCEPT !.is_list = is_list, !.items = items]
    /\ comb = NoCombine /\ unm = NoUnmerge /\ scan = NoScan /\ resc = NoRescale
    /\ MpsIdle

LinearRegionInit ==
    /\ ~ctor.done
    /\ ctor' = LinearRegionResult(ctor.is_list, ctor.items)
    /\ UNCHANGED <<mps_vars, comb, unm, scan, resc>>

NextLinearRegion == LinearRegionInit

SpecLinearRegion == InitLinearRegion /\ [][NextLinearRegion]_vars

\* ================================================================== claims
N == args.input_dim

Adaptive == args.adaptive_mode

\* self.linear_region has been built (construction got past the label_site check)
Built == pc = "ready" \/ (pc = "failed" /\ call.error \in {"len", "path"})

\* A forward call has just been made
ForwardStep == batch_log' # batch_log

ActiveTiling == IF offset = 0 THEN module_list_0 ELSE module_list_1

HasKind(chain, kind) == \E i \in 1..Len(chain) : chain[i].kind = kind

\* C1: once the linear region is built, the site count of the active chain is
\* input_dim, in adaptive and non-adaptive mode, after construction and after any
\* forward calls; in adaptive mode both the phase-0 and the phase-1 tiling have
\* site count input_dim as well.
C1_SiteCountIsInputDim ==
    Built =>
        /\ ChainLen(module_list) = N
        /\ Adaptive => ChainLen(module_list_0) = N /\ ChainLen(module_list_1) = N

\* C2: a forward call on an adaptive chain returns the triple exactly when a
\* structural cycle fired during the call and the output alone otherwise, and the
\* two lists of a triple have length input_dim + 2.
C2_TripleIffCycle ==
    (call.op = "forward" /\ Adaptive) =>
        /\ call.fired => call.outcome = "triple"
        /\ ~call.fired => call.outcome = "plain"
        /\ call.outcome = "triple" =>
              Len(call.new_bonds) = N + 2 /\ Len(call.new_svs) = N + 2

\* C3 as stated: with merge threshold 10, three batches of 4, 4, 4 on a fresh
\* adaptive chain fire exactly one structural cycle and leave the counter at 2.
C3_OneCycleInThreeBatches ==
    (pc = "ready" /\ Adaptive /\ args.merge_threshold = 10
        /\ batch_log = <<4, 4, 4>>) =>
        ncycles = 1 /\ input_counter = 2

\* C3 amended: with merge threshold 10, three batches of 4, 4, 4 on a fresh
\* adaptive chain fire no structural cycle and leave the counter at 12 (the
\* threshold is compared with the pre-call counter: 0, 4, 8); the first cycle is
\* started by the fourth call, whose pre-call counter is 12.
C3_NoCycleInThreeBatches ==
    (pc = "ready" /\ Adaptive /\ args.merge_threshold = 10
        /\ Len(batch_log) >= 3 /\ SubSeq(batch_log, 1, 3) = <<4, 4, 4>>) =>
        /\ Len(batch_log) = 3 => ncycles = 0 /\ input_counter = 12 /\ ~call.fired
        /\ Len(batch_log) = 4 => ncycles = 1 /\ call.fired /\ call.entry = 12

C3_Witness ==
    /\ pc = "ready" /\ Adaptive /\ args.merge_threshold = 10
    /\ batch_log = <<4, 4, 4>>
    /\ input_counter = 12

\* C4: in every forward call on an adaptive chain a structural cycle runs iff the
\* counter at entry is >= merge_threshold, at most once; a cycle flips the phase
\* flag once, subtracts merge_threshold from the counter once and leaves the
\* active chain equal to the tiling the new flag selects; every call adds its
\* batch size to the counter; a call without a cycle leaves flag and active
\* chain unchanged.
C4_CycleEffect ==
    [][(ForwardStep /\ Adaptive) =>
        LET due == input_counter >= args.merge_threshold
        IN /\ call'.fired = due
           /\ ncycles' = ncycles + (IF due THEN 1 ELSE 0)
           /\ due => /\ offset' = 1 - offset
                     /\ input_counter' = input_counter - args.merge_threshold
                                         + call'.batch
                     /\ module_list' = ActiveTiling'
           /\ ~due => /\ offset' = offset
                      /\ input_counter' = input_counter + call'.batch
                      /\ module_list' = module_list]_vars

\* A cycle of the last call ran to the subtraction of the threshold
Subtracted == call.op = "forward" /\ call.fired /\ call.error # "merge"

\* C5 as stated: right after a cycle has subtracted the threshold (before the
\* batch is added) the counter lies in 0..merge_threshold-1.
C5_CounterReducedModulo ==
    Subtracted => call.mid \in 0..(args.merge_threshold - 1)

\* C5 amended: a cycle subtracts the threshold exactly once: right after the
\* subtraction the counter is the counter at entry minus merge_threshold, which
\* is >= 0; it lies in 0..merge_threshold-1 when no earlier batch was larger
\* than merge_threshold.
C5_CounterCarriesRemainder ==
    Subtracted =>
        /\ call.mid = call.entry - args.merge_threshold
        /\ call.mid >= 0
        /\ (\A i \in 1..(Len(batch_log) - 1) : batch_log[i] <= args.merge_threshold)
              => call.mid < args.merge_threshold

C5_Witness ==
    /\ Subtracted
    /\ \A i \in 1..(Len(batch_log) - 1) : batch_log[i] <= args.merge_threshold
    /\ call.mid > 0

RECURSIVE NumOutputCores(_)
NumOutputCores(chain) ==
    IF chain = <<>> THEN 0
    ELSE (IF Head(chain).kind \in {"OutputSite", "MergedOutput"} THEN 1 ELSE 0)
         + NumOutputCores(Tail(chain))

HasMerged(chain) == HasKind(chain, "MergedInput") \/ HasKind(chain, "MergedOutput")

\* The chains the object holds
Chains == {module_list, module_list_0, module_list_1}

\* C6 as stated: for any chain core_len >= len, with equality iff the chain
\* holds no merged core.
C6_CoreLenEqualIffUnmerged ==
    Built => \A chain \in Chains :
        /\ ChainCoreLen(chain) >= ChainLen(chain)
        /\ ChainCoreLen(chain) = ChainLen(chain) <=> ~HasMerged(chain)

\* C6 amended: for any chain core_len >= len, and core_len - len is the number
\* of cores that carry the output index (OutputSite: core_len 1, len 0;
\* MergedOutput: core_len 2, len 1); InputRegion, InputSite and MergedInput have
\* core_len = len.  Equality holds iff the chain has no output core, merged or not.
C6_CoreLenCountsOutput ==
    Built => \A chain \in Chains :
        /\ ChainCoreLen(chain) >= ChainLen(chain)
        /\ ChainCoreLen(chain) = ChainLen(chain) + NumOutputCores(chain)

C6_Witness ==
    /\ pc = "ready"
    /\ HasKind(module_list, "MergedInput")
    /\ HasKind(module_list, "MergedOutput")
    /\ ChainCoreLen(module_list) = N + 1

\* The combination-grammar table of the specification
InGrammarTable(l, r, merging) ==
    \/ merging /\ (\/ l.kind = "OutputSite" /\ r.kind = "InputSite"
                   \/ l.kind = "InputSite" /\ r.kind = "OutputSite")
    \/ merging /\ (\/ l.kind \in {"InputRegion", "InputSite"} /\ r.kind = "InputSite"
                   \/ l.kind = "InputSite" /\ r.kind \in {"InputRegion", "InputSite"})
    \/ ~merging /\ (\/ l.kind = "InputRegion" /\ r.kind = "InputSite"
                    \/ l.kind = "InputSite" /\ r.kind = "InputRegion")

\* C7 as stated: combine returns a core exactly for the pairs and modes of the
\* grammar table (three rows) and None otherwise.
C7_CombineFollowsTable ==
    comb.done =>
        (comb.result # None <=> InGrammarTable(comb.left, comb.right, comb.merging))

\* C7 amended: combine returns a core exactly for (OutputSite, InputSite) in
\* either order when merging (a MergedOutput whose left_output says the output
\* core was on the left) and for (InputRegion, InputSite) in either order when
\* unmerging (an InputRegion one site longer); every other pair and mode gives
\* None, including an InputRegion or InputSite next to an InputSite when merging
\* (that pairing is InputRegion.merge's, not combine's).
C7_CombineTwoRules ==
    comb.done =>
        LET l == comb.left
            r == comb.right
        IN IF comb.merging /\ l.kind = "OutputSite" /\ r.kind = "InputSite"
           THEN comb.result = MergedOutput(TRUE)
           ELSE IF comb.merging /\ l.kind = "InputSite" /\ r.kind = "OutputSite"
           THEN comb.result = MergedOutput(FALSE)
           ELSE IF ~comb.merging /\ l.kind = "InputRegion" /\ r.kind = "InputSite"
           THEN comb.result = InputRegion(l.n + 1)
           ELSE IF ~comb.merging /\ l.kind = "InputSite" /\ r.kind = "InputRegion"
           THEN comb.result = InputRegion(r.n + 1)
           ELSE comb.result = None

C7_Witness ==
    /\ comb.done
    /\ comb.merging
    /\ comb.left.kind = "InputSite"
    /\ comb.right.kind = "OutputSite"
    /\ comb.result.kind = "MergedOutput"

\* C8: when a forward call returns a triple, bond_list[i] and sv_list[i] are
\* overwritten exactly at the indices whose returned bond entry is not -1 and
\* every other entry is unchanged; the returned lists carry -1 at the same
\* indices, among them the first and the last, so the two end entries of
\* bond_list keep their construction values (1 for an open-boundary chain).
C8_BondListUpdate ==
    /\ [](pc = "ready" =>
            /\ bond_list[1] = (IF args.periodic_bc THEN args.bond_dim ELSE 1)
            /\ bond_list[N + 2] = (IF args.periodic_bc THEN args.bond_dim ELSE 1))
    /\ [][(ForwardStep /\ call'.outcome = "triple") =>
            /\ call'.new_bonds[1] = -1
            /\ call'.new_bonds[N + 2] = -1
            /\ \A i \in 1..(N + 2) :
                  /\ call'.new_bonds[i] = -1 <=> call'.new_svs[i] = -1
                  /\ bond_list'[i] = IF call'.new_bonds[i] # -1
                                     THEN call'.new_bonds[i] ELSE bond_list[i]
                  /\ sv_list'[i] = IF call'.new_bonds[i] # -1
                                   THEN call'.new_svs[i] ELSE sv_list[i]]_vars

C8_Witness ==
    /\ call.op = "forward"
    /\ call.outcome = "triple"
    /\ \E i \in 2..(N + 1) : call.new_bonds[i] # -1 /\ bond_list[i] # args.bond_dim
    /\ \E j \in 2..(N + 1) : call.new_bonds[j] = -1

\* The width the claim gives each core kind of a tiling
KindWidth(c) ==
    CASE c.kind = "MergedInput"  -> 2 * c.n
      [] c.kind = "InputSite"    -> 1
      [] c.kind = "MergedOutput" -> 1
      [] c.kind = "OutputSite"   -> 0
      [] OTHER -> -1

RECURSIVE WidthBefore(_, _)
WidthBefore(slices, k) ==
    IF k = 0 THEN 0 ELSE slices[k].width + WidthBefore(slices, k - 1)

\* C9: in a forward call over a tiling, the cores receive in chain order
\* contiguous slices of the site axis, each starting where the one before ends
\* and of the width of its kind, so that every position 0..N-1 goes to exactly
\* one core.
C9_Partition ==
    (call.op = "forward" /\ Adaptive /\ call.error # "merge") =>
        LET sl == call.slices
        IN /\ Len(sl) = Len(module_list)
           /\ \A k \in 1..Len(sl) :
                 /\ sl[k].width = KindWidth(module_list[k])
                 /\ sl[k].start = WidthBefore(sl, k - 1)
                 /\ sl[k].start + sl[k].width <= N
           /\ \A p \in 0..(N - 1) :
                 Cardinality({k \in 1..Len(sl) :
                                 sl[k].start <= p /\ p < sl[k].start + sl[k].width}) = 1

C9_Witness ==
    /\ call.op = "forward" /\ Adaptive /\ call.error = ""
    /\ HasKind(module_list, "MergedInput")
    /\ HasKind(module_list, "InputSite")
    /\ \E k \in 2..Len(module_list) :
          module_list[k].kind = "MergedInput" /\ call.slices[k].start > 0

\* C10: construction fails exactly when label_site is outside 0..input_dim or a
\* custom path is given whose length differs from input_dim; every other
\* argument list is accepted.
C10_ConstructionAccepts ==
    call.op = "init" =>
        (pc = "failed" <=>
            \/ args.label_given /\ (args.label_site < 0 \/ args.label_site > N)
            \/ args.path_given /\ args.path_len # N)

\* C11: in the rescale step of a structural cycle a core of norm 0 is surfaced
\* as an error to the caller, and no non-finite scale factor is applied to the
\* cores.
C11_ZeroNormRaises ==
    (resc.done /\ \E i \in 1..Len(resc.norms) : resc.norms[i] = "zero") =>
        /\ resc.raised
        /\ \A i \in 1..Len(resc.scales) : resc.scales[i] \notin {"nan", "inf"}
        /\ \A i \in 1..Len(resc.after) : resc.after[i] \notin {"nan", "inf"}

\* C13: for input_dim >= 2 and every label_site in 0..input_dim, every
\* structural cycle completes: the list merge re-builds from the unmerged chain
\* has as many cores, of the same kinds and tensor shapes, as the tiling of that
\* phase built at construction, so the in-place update never fails, in the
\* first cycle and in every later one.
C13_CycleCompletes ==
    (call.op = "forward" /\ Adaptive /\ N >= 2 /\ call.fired) =>
        /\ call.error # "merge"
        /\ MergedList(call.unmerged, offset) = ActiveTiling
        /\ module_list = ActiveTiling

\* C14: the sliding-window scans of merge and unmerge conserve cores: for an
\* input list of any length >= 1 (a list of one core included) the list the
\* scan leaves has the same total core_len and the same total site count as
\* the input list.
C14_ScanConservesCores ==
    scan.done =>
        /\ ChainCoreLen(scan.result) = ChainCoreLen(scan.list)
        /\ ChainLen(scan.result) = ChainLen(scan.list)

\* C15: a forward call on an adaptive chain that fails its input shape check
\* (wrong rank, or a site count that is not the chain length) leaves the
\* adaptive state as it was: input counter, phase flag, active chain and both
\* tilings, also when the counter at entry is >= merge_threshold.
C15_FailedCheckKeepsState ==
    [][(ForwardStep /\ call'.op = "region_forward" /\ call'.error = "shape") =>
        /\ input_counter' = input_counter
        /\ offset' = offset
        /\ module_list' = module_list
        /\ module_list_0' = module_list_0
        /\ module_list_1' = module_list_1]_vars

\* The indices (counted from 1) at which a returned bond list is not -1
Refreshed(bonds) == {i \in 1..Len(bonds) : bonds[i] # -1}

\* The interior junctions: indices 1..input_dim of the lists, counted from 0
InteriorJunctions == 2..(N + 1)

\* C16: the two tilings split complementary junctions: for input_dim >= 2 the
\* index sets with a non-sentinel bond entry returned by unmerging the phase-0
\* and the phase-1 tiling are disjoint and together are the interior junctions
\* 1..input_dim; two consecutive cycles unmerge the two tilings in turn, so
\* between them every interior junction is split exactly once.
C16_ComplementaryJunctions ==
    /\ []((pc = "ready" /\ Adaptive /\ N >= 2) =>
            /\ SplitJunctions(module_list_0) \cap SplitJunctions(module_list_1) = {}
            /\ SplitJunctions(module_list_0) \cup SplitJunctions(module_list_1)
                  = InteriorJunctions)
    /\ [][(ForwardStep /\ Adaptive /\ N >= 2 /\ call.op = "forward"
              /\ call.fired /\ call'.fired) =>
            /\ Refreshed(call.split_bonds) \cap Refreshed(call'.split_bonds) = {}
            /\ Refreshed(call.split_bonds) \cup Refreshed(call'.split_bonds)
                  = InteriorJunctions]_vars

C16_Witness ==
    /\ call.op = "forward" /\ call.fired /\ call.offset_in = 1
    /\ Adaptive /\ N >= 3 /\ args.merge_threshold = 1 /\ ncycles >= 2
    /\ Refreshed(call.split_bonds) = SplitJunctions(module_list_1)
    /\ Cardinality(SplitJunctions(module_list_0)) >= 2

\* An InputSite and an InputRegion stand next to each other in the chain
StrayNextToRegion(chain) ==
    \E i \in 1..(Len(chain) - 1) :
        {chain[i].kind, chain[i + 1].kind} = {"InputSite", "InputRegion"}

\* C17: after the unmerge step of a structural cycle the chain handed to merge
\* holds no MergedInput and no MergedOutput core, and no InputSite is left next
\* to an InputRegion: every such stray core has been fused into the region.
C17_UnmergedChainClean ==
    (call.op = "forward" /\ call.fired) =>
        /\ ~HasKind(call.unmerged, "MergedInput")
        /\ ~HasKind(call.unmerged, "MergedOutput")
        /\ ~StrayNextToRegion(call.unmerged)
        /\ MergeInputOk(call.unmerged)

C17_Witness ==
    /\ call.op = "forward" /\ call.fired
    /\ StrayNextToRegion(UnmergeCores(IF call.offset_in = 0 THEN module_list_0
                                      ELSE module_list_1))
    /\ HasKind(call.unmerged, "InputRegion")
    /\ ~StrayNextToRegion(call.unmerged)

\* The core combine returned has been unmerged
ResultUnmerged == comb.done /\ unm.done /\ unm.from = "result"

\* C18: combining an OutputSite with an adjacent InputSite and unmerging the
\* result restores the left-to-right order of the pair: [InputSite, OutputSite]
\* if the input core sat on the left, [OutputSite, InputSite] if it sat on the
\* right; the one non-sentinel bond entry is at the junction between the two
\* returned cores.
C18_OrderRestored ==
    (ResultUnmerged /\ comb.result.kind = "MergedOutput") =>
        /\ unm.cores = <<comb.left, comb.right>>
        /\ comb.left.kind = "InputSite" =>
              unm.cores[1].kind = "InputSite" /\ unm.cores[2].kind = "OutputSite"
        /\ comb.right.kind = "InputSite" =>
              unm.cores[1].kind = "OutputSite" /\ unm.cores[2].kind = "InputSite"
        /\ Len(unm.bonds) = 3
        /\ {i \in 1..3 : unm.bonds[i] # -1} = {2}
        /\ {i \in 1..3 : unm.svs[i] # -1} = {2}

C18_Witness ==
    /\ ResultUnmerged
    /\ comb.left.kind = "InputSite" /\ comb.right.kind = "OutputSite"
    /\ unm.cores = <<InputSite, OutputSite>>

C20_LinearRegionValidates ==
    ctor.done =>
        /\ ctor.raised <=>
              \/ ~ctor.is_list
              \/ ctor.items = <<>>
              \/ \E i \in 1..Len(ctor.items) : ctor.items[i] # "module"
        /\ ctor.raised => ctor.module_list = <<>>

====
